---- MODULE Spec2Model ----
(***************************************************************************)
(* State-machine model of fastNLP's CheckpointCallback                     *)
(* (fastNLP/core/callbacks/checkpoint_callback.py).                        *)
(*                                                                         *)
(* One checkpoint manager object lives in one training process.  The       *)
(* variables are the manager's fields, the two trainer counters the        *)
(* handlers read, the directories on disk, and the state dictionary last   *)
(* written by on_save_checkpoint.  Every handler of the class is one        *)
(* action.  An exception raised inside a handler leaves the assignments    *)
(* made before the raise in place (Python semantics) and is recorded in    *)
(* last.err; what the caller does next is the caller's business, so the    *)
(* object keeps accepting calls.                                           *)
(*                                                                         *)
(* Python values: None is the definition None; a dict is a sequence of     *)
(* [k, v] entries in insertion order; a metric or monitor name is a        *)
(* sequence of one-character strings (so substrings can be compared).      *)
(***************************************************************************)
EXTENDS Integers, Sequences, FiniteSets, TLC

\* ------------------------------------------------------------------ bounds
MaxVal == 4        \* metric values are 1..MaxVal
MaxBatch == 2      \* trainer.global_forward_batches stays in 0..MaxBatch
MaxEpoch == 5      \* trainer.cur_epoch_idx stays in 0..MaxEpoch
MaxEvents == 4     \* validation events one manager handles at one batch count
MaxBatchEvents == 3    \* the same, while the batch counter advances
MaxBatchVal == 2   \* metric values are 1..MaxBatchVal while it advances
MaxResumeEvents == 1   \* the same, in runs that checkpoint and relaunch
MaxResumeVal == 2  \* metric values are 1..MaxResumeVal in such runs
MaxMonitorEvents == 2  \* the same, where the evaluator's metric names vary
MaxMonitorVal == 2 \* metric values are 1..MaxMonitorVal there
NumProcs == 2      \* cooperating processes of a distributed run
MaxMultiEvents == 2    \* save triggers such a run handles
MaxRuns == 2       \* processes launched (one manager each)
MaxParams == 3     \* most parameters of a function registered on an event
MaxEvery == 2      \* largest every=N filter of an event
MaxTopk == 2       \* largest save_topk configured

\* ------------------------------------------------------- program constants
None == -1                    \* Python's None where an Optional[int] is held
sys_maxsize == 2147483647     \* sys.maxsize, cut to 32-bit integers

folder_prefix == "model"

save_fn_name == "save_model"

NoName == <<>>

\* ------------------------------------------------------------- dict helpers
DictKeys(d) == {d[i].k : i \in DOMAIN d}

DictGet(d, key) == d[CHOOSE i \in DOMAIN d : d[i].k = key].v

\* d[key] = value: an existing key keeps its position, a new key goes last
DictSet(d, key, value) ==
    IF key \in DictKeys(d)
    THEN [i \in DOMAIN d |-> IF d[i].k = key THEN [k |-> key, v |-> value] ELSE d[i]]
    ELSE Append(d, [k |-> key, v |-> value])

\* d.pop(key)
DictPop(d, key) == SelectSeq(d, LAMBDA e : e.k # key)

\* ------------------------------------------------------------ folder names
\* f'{prefix}-epoch_{e}'
EpochFolder(e) ==
    [prefix |-> folder_prefix, kind |-> "epoch", epoch |-> e, batch |-> None,
     monitor |-> NoName, value |-> None]

\* f'{prefix}-last'
LastFolder ==
    [prefix |-> folder_prefix, kind |-> "last", epoch |-> None, batch |-> None,
     monitor |-> NoName, value |-> None]

\* f'{prefix}-epoch_{e}-batch_{b}'
BatchFolder(e, b) ==
    [prefix |-> folder_prefix, kind |-> "batch", epoch |-> e, batch |-> b,
     monitor |-> NoName, value |-> None]

\* f'{prefix}-epoch_{e}-batch_{b}-{real_monitor}_{metric_value}'
TopkFolder(e, b, m, v) ==
    [prefix |-> folder_prefix, kind |-> "topk", epoch |-> e, batch |-> b,
     monitor |-> m, value |-> v]

\* f'{prefix}-epoch_{e}-batch_{b}-exception_{name}'
ExceptionFolder(e, b, name) ==
    [prefix |-> folder_prefix, kind |-> "exception", epoch |-> e, batch |-> b,
     monitor |-> NoName, value |-> None, exception |-> name]

\* ------------------------------------------------------ exception classes
\* Python classes by name, each with its base class
Classes == {"object", "int", "BaseException", "Exception", "LookupError", "KeyError",
            "TypeError"}

ExceptionClasses == Classes \ {"object", "int"}

__base__(cls) ==
    CASE cls = "KeyError" -> "LookupError"
      [] cls = "LookupError" -> "Exception"
      [] cls = "TypeError" -> "Exception"
      [] cls = "Exception" -> "BaseException"
      [] OTHER -> "object"

RECURSIVE issubclass(_, _)
issubclass(cls, classinfo) ==
    \/ cls = classinfo
    \/ (cls # "object" /\ issubclass(__base__(cls), classinfo))

\* ------------------------------------------------------- monitor resolver
acc == <<"a", "c", "c">>
ac == <<"a", "c">>

Max(S) == CHOOSE x \in S : \A y \in S : y <= x

\* length of the longest common substring of two names
_match_length(a, b) ==
    Max({0} \cup {n \in 1..Len(a) :
            \E i \in 1..(Len(a) - n + 1), j \in 1..(Len(b) - n + 1) :
                SubSeq(a, i, i + n - 1) = SubSeq(b, j, j + n - 1)})

\* res is the result mapping in insertion order
_get_monitor_value(mon, real_monitor, res) ==
    IF res = <<>>
    THEN [ok |-> FALSE, key |-> NoName, value |-> None]
    ELSE IF real_monitor \in DictKeys(res)
    THEN [ok |-> TRUE, key |-> real_monitor, value |-> DictGet(res, real_monitor)]
    ELSE IF mon \in DictKeys(res)
    THEN [ok |-> TRUE, key |-> mon, value |-> DictGet(res, mon)]
    ELSE LET best == CHOOSE i \in DOMAIN res :
                        /\ \A j \in DOMAIN res :
                              _match_length(mon, res[j].k) <= _match_length(mon, res[i].k)
                        /\ \A j \in 1..(i - 1) :
                              _match_length(mon, res[j].k) < _match_length(mon, res[i].k)
         IN  IF _match_length(mon, res[best].k) = 0
             THEN [ok |-> FALSE, key |-> NoName, value |-> None]
             ELSE [ok |-> TRUE, key |-> res[best].k, value |-> res[best].v]

\* mutant: the requested name is passed where the pinned name belongs
_get_validate_metric_unpinned(mon, real_monitor, res) == _get_monitor_value(mon, mon, res)

\* _get_validate_metric: the resolver is given the monitor and the pinned name;
\* the caller stores the key it returns in _real_monitor
_get_validate_metric(mon, real_monitor, res) == _get_monitor_value(mon, real_monitor, res)

\* --------------------------------------------------------------- variables
VARIABLES
    monitor, save_every_n_epochs, save_every_n_batches, save_last, save_topk,
    larger_better, save_on_exception,   \* configuration, fixed by __init__
    _topk_model, _topn,             \* the retention set and its fill counter
    _real_monitor,                  \* the resolved monitor name
    timestamp_path,                 \* the run directory the manager saves under
    cur_epoch_idx, global_forward_batches,   \* trainer counters
    plan,                           \* what the training loop and evaluator will do
    pending,                        \* the callback the training loop owes next, or
                                    \* the class of the exception that ended the loop
    launch_time,                    \* FASTNLP_LAUNCH_TIME of the process
    rundirs, folders,               \* run directories, artifact directories on disk
    ckpt,                           \* <<>> or <<states>> of on_save_checkpoint
    seen,                           \* candidates this manager has considered
    last,                           \* what the last handler did
    mp                              \* the cooperating processes of a distributed run

config == <<monitor, save_every_n_epochs, save_every_n_batches, save_last,
            save_topk, larger_better, save_on_exception, plan>>

vars == <<monitor, save_every_n_epochs, save_every_n_batches, save_last, save_topk,
          larger_better, save_on_exception, _topk_model, _topn, _real_monitor, timestamp_path,
          cur_epoch_idx, global_forward_batches, plan, pending,
          launch_time, rundirs, folders,
          ckpt, seen, last, mp>>

\* everything but the cooperating processes
manager == <<monitor, save_every_n_epochs, save_every_n_batches, save_last, save_topk,
             larger_better, save_on_exception, _topk_model, _topn, _real_monitor,
             timestamp_path, cur_epoch_idx, global_forward_batches, plan, pending,
             launch_time, rundirs, folders, ckpt, seen, last>>

Outcome(op, err, saved, removed) ==
    [op |-> op, err |-> err, saved |-> saved, removed |-> removed]

\* the outcome of a handler that was handed the result mapping res
Resolved(outcome, res) ==
    [op |-> outcome.op, err |-> outcome.err, saved |-> outcome.saved,
     removed |-> outcome.removed, res |-> res]

\* ------------------------------------------------------------- file system
Path(run, name) == [run |-> run, name |-> name]

\* synchronize_mkdir: creates the directory and its parents, idempotent
synchronize_mkdir(fs, path) == fs \cup {path}

\* synchronize_safe_rm: removes the directory, silent when it is absent
synchronize_safe_rm(fs, path) == fs \ {path}

\* one statement of a handler that touches the retention dict ("setitem",
\* "pop"), the disk ("mkdir", "rm") or the external save function ("write")
Call(kind, run, name) == [kind |-> kind, path |-> Path(run, name)]

\* the calls of save(folder_name) in a process whose timestamp_path is tp
SaveCalls(tp, folder_name) ==
    <<Call("mkdir", tp, folder_name), Call("write", tp, folder_name)>>

\* the calls of an eviction followed by save(folder_name)
ReplaceCalls(tp, least, folder_name) ==
    <<Call("rm", tp, least)>> \o SaveCalls(tp, folder_name)

\* the directories on disk after the calls, made in their order
RECURSIVE Applied(_, _)
Applied(fs, calls) ==
    IF calls = <<>> THEN fs
    ELSE LET c == Head(calls)
         IN  Applied(IF c.kind = "mkdir" THEN synchronize_mkdir(fs, c.path)
                     ELSE IF c.kind = "rm" THEN synchronize_safe_rm(fs, c.path)
                     ELSE fs,
                     Tail(calls))

\* the outcome of a handler together with the statements it ran, in order
Stepped(outcome, steps) ==
    [op |-> outcome.op, err |-> outcome.err, saved |-> outcome.saved,
     removed |-> outcome.removed, res |-> outcome.res, steps |-> steps]

\* a run of one process: no other process cooperates
NoProcs == <<>>

\* ------------------------------------------------------------------ inputs
\* the result mappings an evaluation hands to on_validate_end, for an evaluator
\* reporting metrics named keys with values in vals: empty, one key, or the
\* keys ac and acc in either insertion order with different values
Results(keys, vals) ==
    LET Entries == [k : keys, v : vals] IN
    {<<>>} \cup {<<e>> : e \in Entries}
           \cup {x \in Entries \X Entries :
                    /\ x[1].k # x[2].k
                    /\ {x[1].k, x[2].k} = {ac, acc}
                    /\ x[2].v # x[1].v}

TopkChoices == {None} \cup (1..MaxTopk)

EveryChoices == {sys_maxsize, 1, 2}

\* ---------------------------------------------------------------- __init__
\* the fields __init__ assigns that are not configuration, and the mkdir
Construct(mon, launch, fs) ==
    /\ _topk_model' = <<>>
    /\ _topn' = 0
    /\ _real_monitor' = mon
    /\ timestamp_path' = launch
    /\ rundirs' = synchronize_mkdir(fs, launch)

\* -------------------------------------------------- __init__: validation
\* arguments as Python values: a type name with the value's payload
Arg(type, v) == [type |-> type, v |-> v]

NoneArg == Arg("NoneType", 0)

\* isinstance(x, int)
isinstance_int(x) == x.type = "int"

\* mutant: the lower limit of an interval or width is 0
_valid_count_from_zero(x) == isinstance_int(x) /\ x.v >= 0

\* not (not isinstance(x, int) or x < 1)
_valid_count(x) == isinstance_int(x) /\ x.v >= 1

\* the for loop over save_on_exception: issubclass(exception, BaseException)
_all_exceptions(items) == \A i \in DOMAIN items : issubclass(items[i], "BaseException")

\* the checks of __init__ in their order: the error raised, or "none".
\* save_folder is [type, at]: a Path or a str naming a directory, a file or
\* nothing; None becomes Path.cwd(), which exists; a str has no exists()
_validate(a) ==
    IF a.monitor.type = "NoneType" /\ a.save_topk.type # "NoneType" THEN "ValueError"
    ELSE IF a.monitor.type \notin {"NoneType", "str"} THEN "ValueError"
    ELSE IF a.save_folder.type = "str" THEN "AttributeError"
    ELSE IF a.save_folder.type = "Path" /\ a.save_folder.at = "missing"
    THEN "NotADirectoryError"
    ELSE IF a.save_folder.type = "Path" /\ a.save_folder.at = "file" THEN "ValueError"
    ELSE IF a.save_every_n_epochs.type # "NoneType" /\ ~_valid_count(a.save_every_n_epochs)
    THEN "ValueError"
    ELSE IF a.save_every_n_batches.type # "NoneType" /\ ~_valid_count(a.save_every_n_batches)
    THEN "ValueError"
    ELSE IF a.save_topk.type # "NoneType" /\ ~_valid_count(a.save_topk) THEN "ValueError"
    ELSE IF a.save_on_exception.type # "NoneType" /\ ~_all_exceptions(a.save_on_exception.v)
    THEN "TypeError"
    ELSE "none"

\* the outcome of __init__ called with the arguments a
Called(outcome, a) ==
    [op |-> outcome.op, err |-> outcome.err, saved |-> outcome.saved,
     removed |-> outcome.removed, args |-> a]

\* the state after construction in the first process
ConstructedManager ==
    /\ monitor = acc
    /\ _topk_model = <<>>
    /\ _topn = 0
    /\ _real_monitor = monitor
    /\ launch_time = 1
    /\ timestamp_path = launch_time
    /\ rundirs = synchronize_mkdir({}, launch_time)
    /\ folders = {}
    /\ cur_epoch_idx = 0
    /\ global_forward_batches = 0
    /\ pending = "none"
    /\ ckpt = <<>>
    /\ seen = <<>>
    /\ last = Outcome("init", "none", <<>>, <<>>)

\* the same, in a run of one process
Constructed == ConstructedManager /\ mp = NoProcs

\* a training plan: epochs and batches the loop runs, evaluations it performs,
\* the metric names and values the evaluator reports
Plan(n_epochs, total_batches, n_evals, keys, vals) ==
    [n_epochs |-> n_epochs, total_batches |-> total_batches, n_evals |-> n_evals,
     keys |-> keys, vals |-> vals]

\* top-K retention in one process: the periodic triggers left unset; the
\* evaluations either all fall on one batch count or are spread over several
Init ==
    /\ save_every_n_epochs = sys_maxsize
    /\ save_every_n_batches = sys_maxsize
    /\ save_last = FALSE
    /\ save_topk \in TopkChoices
    /\ larger_better \in BOOLEAN
    /\ save_on_exception = {}
    /\ plan \in {Plan(0, 0, MaxEvents, {acc}, 1..MaxVal),
                 Plan(0, MaxBatch, MaxBatchEvents, {acc}, 1..MaxBatchVal)}
    /\ Constructed

\* the periodic triggers configured, no top-K retention
InitSched ==
    /\ save_every_n_epochs \in EveryChoices
    /\ save_every_n_batches \in EveryChoices
    /\ save_last \in BOOLEAN
    /\ save_topk = None
    /\ larger_better = TRUE
    /\ save_on_exception = {}
    /\ plan = Plan(MaxEpoch, MaxBatch, 1, {acc}, {1})
    /\ Constructed

\* top-K retention across checkpoints and relaunches; the evaluator reports
\* the metric under the name ac, which the monitor acc resolves to
InitResume ==
    /\ save_every_n_epochs = sys_maxsize
    /\ save_every_n_batches = sys_maxsize
    /\ save_last = FALSE
    /\ save_topk \in TopkChoices
    /\ larger_better = TRUE
    /\ save_on_exception = {}
    /\ plan = Plan(0, 0, MaxResumeEvents, {ac}, 1..MaxResumeVal)
    /\ Constructed

\* the process before a manager is constructed: no field holds anything yet,
\* no run directory exists
Unconstructed ==
    /\ monitor = NoName
    /\ save_every_n_epochs = None
    /\ save_every_n_batches = None
    /\ save_last = FALSE
    /\ save_topk = None
    /\ larger_better = TRUE
    /\ save_on_exception = {}
    /\ plan = Plan(0, 0, 0, {}, {})
    /\ _topk_model = <<>>
    /\ _topn = 0
    /\ _real_monitor = NoName
    /\ launch_time = 1
    /\ timestamp_path = None
    /\ rundirs = {}
    /\ folders = {}
    /\ cur_epoch_idx = 0
    /\ global_forward_batches = 0
    /\ pending = "none"
    /\ ckpt = <<>>
    /\ seen = <<>>
    /\ last = Outcome("start", "none", <<>>, <<>>)
    /\ mp = NoProcs

\* the argument values a caller may pass
MonitorArgs == {Arg("NoneType", NoName), Arg("str", acc), Arg("int", NoName)}

FolderArgs ==
    {[type |-> "NoneType", at |-> "dir"], [type |-> "str", at |-> "dir"]}
        \cup [type : {"Path"}, at : {"dir", "file", "missing"}]

CountArgs == {NoneArg, Arg("float", 1), Arg("str", 1)} \cup {Arg("int", n) : n \in 0..MaxTopk}

AllowListArgs ==
    {Arg("NoneType", <<>>), Arg("class", <<"KeyError">>), Arg("class", <<"int">>),
     Arg("list", <<>>), Arg("list", <<"KeyError", "Exception">>),
     Arg("list", <<"KeyError", "int">>)}

InitArgs ==
    [monitor : MonitorArgs, save_folder : FolderArgs, save_every_n_epochs : CountArgs,
     save_every_n_batches : CountArgs, save_last : BOOLEAN, save_topk : CountArgs,
     save_on_exception : AllowListArgs, larger_better : BOOLEAN]

\* __init__: the checks, then the fields, then the run directory
__init__(a) ==
    LET err == _validate(a) IN
    /\ last.op = "start"
    /\ last' = Called(Outcome("__init__", err, <<>>, <<>>), a)
    /\ IF err # "none"
       THEN UNCHANGED <<config, _topk_model, _topn, _real_monitor, timestamp_path,
                        rundirs>>
       ELSE /\ monitor' = a.monitor.v
            /\ save_every_n_epochs' = IF a.save_every_n_epochs.type = "NoneType"
                                      THEN sys_maxsize ELSE a.save_every_n_epochs.v
            /\ save_every_n_batches' = IF a.save_every_n_batches.type = "NoneType"
                                       THEN sys_maxsize ELSE a.save_every_n_batches.v
            /\ save_last' = a.save_last
            /\ save_topk' = IF a.save_topk.type = "NoneType" THEN None ELSE a.save_topk.v
            /\ larger_better' = a.larger_better
            /\ save_on_exception' = {a.save_on_exception.v[i] :
                                        i \in DOMAIN a.save_on_exception.v}
            /\ plan' = plan
            /\ Construct(a.monitor.v, launch_time, rundirs)
    /\ UNCHANGED <<cur_epoch_idx, global_forward_batches, pending, launch_time, folders,
                   ckpt, seen, mp>>

\* ------------------------------------------------------------------- save
\* save(): mkdir of timestamp_path/folder_name, then the trainer's save function
save(fs, folder_name) == synchronize_mkdir(fs, Path(timestamp_path, folder_name))

\* --------------------------------------------------------------- _save_topk
\* mutant: min and max exchanged, the most valuable entry is picked
_least_valuable_model_swapped(d, lb) ==
    LET i == CHOOSE i \in DOMAIN d :
                /\ \A j \in DOMAIN d : IF lb THEN d[i].v >= d[j].v ELSE d[i].v <= d[j].v
                /\ \A j \in 1..(i - 1) : d[j].v # d[i].v
    IN  d[i].k

\* mutant: of several least valuable entries the last inserted is picked
_least_valuable_model_last(d, lb) ==
    LET i == CHOOSE i \in DOMAIN d :
                /\ \A j \in DOMAIN d : IF lb THEN d[i].v <= d[j].v ELSE d[i].v >= d[j].v
                /\ \A j \in (i + 1)..Len(d) : d[j].v # d[i].v
    IN  d[i].k

\* (min if larger_better else max)(d, key=lambda x: d[x]): the first such key
_least_valuable_model(d, lb) ==
    LET i == CHOOSE i \in DOMAIN d :
                /\ \A j \in DOMAIN d : IF lb THEN d[i].v <= d[j].v ELSE d[i].v >= d[j].v
                /\ \A j \in 1..(i - 1) : d[j].v # d[i].v
    IN  d[i].k

\* mutant: the candidate is compared as if larger were always better
_is_better_one_way(lb, value, least) == value > least

\* mutant: a candidate equal to the least valuable entry is admitted too
_is_better_or_equal(lb, value, least) ==
    (lb /\ value >= least) \/ (~lb /\ value <= least)

\* the admission test against the least valuable entry's value
_is_better(lb, value, least) ==
    (lb /\ value > least) \/ (~lb /\ value < least)

\* the body of `if self.save_topk is not None`, up to the assert
_save_topk(topk, topn, K, lb, folder_name, value) ==
    IF topn < K
    THEN [topk |-> DictSet(topk, folder_name, value), topn |-> topn + 1,
          should_save |-> TRUE, removed |-> <<>>, err |-> "none"]
    ELSE IF topk = <<>>
    THEN [topk |-> topk, topn |-> topn, should_save |-> FALSE, removed |-> <<>>,
          err |-> "ValueError"]
    ELSE LET least == _least_valuable_model(topk, lb)
             admit == _is_better(lb, value, DictGet(topk, least))
             topk1 == IF admit THEN DictPop(DictSet(topk, folder_name, value), least)
                               ELSE topk
         IN  [topk |-> topk1, topn |-> topn, should_save |-> admit,
              removed |-> IF admit THEN <<least>> ELSE <<>>,
              err |-> IF Len(topk1) = K /\ K = topn THEN "none" ELSE "AssertionError"]

\* the statements of st after the comparisons
DictCalls(tp, st, folder_name) ==
    IF st.removed # <<>>
    THEN <<Call("setitem", tp, folder_name), Call("pop", tp, st.removed[1]),
           Call("rm", tp, st.removed[1])>>
    ELSE IF st.should_save THEN <<Call("setitem", tp, folder_name)>>
    ELSE <<>>

\* mutant: the candidate is saved first, the evicted entry dropped afterwards
_steps_save_first(tp, st, folder_name) ==
    (IF st.err = "none" /\ st.should_save THEN SaveCalls(tp, folder_name) ELSE <<>>)
        \o DictCalls(tp, st, folder_name)

\* what _save_topk runs once st is decided: the dict statements and the rm of
\* the admission, the assert, then save() if _should_save
_steps(tp, st, folder_name) ==
    DictCalls(tp, st, folder_name)
        \o (IF st.err = "none" /\ st.should_save THEN SaveCalls(tp, folder_name) ELSE <<>>)

on_validate_end(validate_res, save_raises) ==
    /\ pending = "none"
    /\ Len(seen) < plan.n_evals
    /\ UNCHANGED <<config, mp, timestamp_path, cur_epoch_idx, global_forward_batches,
                   pending, launch_time, ckpt>>
    /\ IF save_topk = None
       THEN /\ UNCHANGED <<_topk_model, _topn, _real_monitor, rundirs, folders, seen>>
            /\ last' = Resolved(Outcome("validate", "none", <<>>, <<>>), validate_res)
       ELSE LET r == _get_validate_metric(monitor, _real_monitor, validate_res) IN
            IF ~r.ok
            THEN /\ UNCHANGED <<_topk_model, _topn, _real_monitor, rundirs, folders, seen>>
                 /\ last' = Resolved(Outcome("validate", "ResolutionError", <<>>, <<>>),
                                     validate_res)
            ELSE LET folder_name == TopkFolder(cur_epoch_idx, global_forward_batches,
                                               r.key, r.value)
                     st == _save_topk(_topk_model, _topn, save_topk, larger_better,
                                      folder_name, r.value)
                     saves == st.err = "none" /\ st.should_save
                     steps == _steps(timestamp_path, st, folder_name)
                 IN  /\ _real_monitor' = r.key
                     /\ _topk_model' = st.topk
                     /\ _topn' = st.topn
                     /\ folders' = Applied(folders, steps)
                     /\ rundirs' = IF saves THEN synchronize_mkdir(rundirs, timestamp_path)
                                            ELSE rundirs
                     /\ seen' = Append(seen, [name |-> folder_name, value |-> r.value,
                                              admitted |-> st.should_save])
                     /\ last' = Stepped(Resolved(Outcome("validate",
                                                 IF st.err # "none" THEN st.err
                                                 ELSE IF saves /\ save_raises THEN "SaveError"
                                                 ELSE "none",
                                                 IF saves THEN <<folder_name>> ELSE <<>>,
                                                 st.removed),
                                         validate_res), steps)

\* ------------------------------------------------------ on_sanity_check_end
\* the sanity check before training resolves the monitor and keeps the key
on_sanity_check_end(sanity_check_res) ==
    LET r == _get_validate_metric(monitor, _real_monitor, sanity_check_res)
    IN  /\ pending = "none"
        /\ last.op = "init"
        /\ _real_monitor' = IF r.ok THEN r.key ELSE _real_monitor
        /\ last' = Resolved(Outcome("sanity_check",
                                    IF r.ok THEN "none" ELSE "ResolutionError",
                                    <<>>, <<>>),
                            sanity_check_res)
        /\ UNCHANGED <<config, mp, _topk_model, _topn, timestamp_path, cur_epoch_idx,
                       global_forward_batches, pending, launch_time, rundirs, folders,
                       ckpt, seen>>

\* ------------------------------------------------------------ the scheduler
\* mutant: the last save is an elif of the epoch save
on_train_epoch_end_elif(raises1, raises2) ==
    LET epoch_save == cur_epoch_idx % save_every_n_epochs = 0
        folder1 == EpochFolder(cur_epoch_idx)
        fs1 == IF epoch_save THEN save(folders, folder1) ELSE folders
        last_save == ~epoch_save /\ save_last
        fs2 == IF last_save THEN save(fs1, LastFolder) ELSE fs1
    IN  /\ pending = "epoch_end"
        /\ pending' = "none"
        /\ folders' = fs2
        /\ rundirs' = IF epoch_save \/ last_save
                      THEN synchronize_mkdir(rundirs, timestamp_path) ELSE rundirs
        /\ last' = Outcome("epoch_end",
                           IF (epoch_save /\ raises1) \/ (last_save /\ raises2)
                           THEN "SaveError" ELSE "none",
                           (IF epoch_save THEN <<folder1>> ELSE <<>>)
                              \o (IF last_save THEN <<LastFolder>> ELSE <<>>),
                           <<>>)
        /\ UNCHANGED <<config, mp, _topk_model, _topn, _real_monitor, timestamp_path,
                       cur_epoch_idx, global_forward_batches, launch_time, ckpt, seen>>

on_train_epoch_end(raises1, raises2) ==
    LET epoch_save == cur_epoch_idx % save_every_n_epochs = 0
        folder1 == EpochFolder(cur_epoch_idx)
        fs1 == IF epoch_save THEN save(folders, folder1) ELSE folders
        aborted == epoch_save /\ raises1
        last_save == ~aborted /\ save_last
        fs2 == IF last_save THEN save(fs1, LastFolder) ELSE fs1
    IN  /\ pending = "epoch_end"
        /\ pending' = "none"
        /\ folders' = fs2
        /\ rundirs' = IF epoch_save \/ last_save
                      THEN synchronize_mkdir(rundirs, timestamp_path) ELSE rundirs
        /\ last' = Outcome("epoch_end",
                           IF aborted \/ (last_save /\ raises2) THEN "SaveError" ELSE "none",
                           (IF epoch_save THEN <<folder1>> ELSE <<>>)
                              \o (IF last_save THEN <<LastFolder>> ELSE <<>>),
                           <<>>)
        /\ UNCHANGED <<config, mp, _topk_model, _topn, _real_monitor, timestamp_path,
                       cur_epoch_idx, global_forward_batches, launch_time, ckpt, seen>>

on_train_batch_end(save_raises) ==
    LET batch_save == global_forward_batches % save_every_n_batches = 0
        folder_name == BatchFolder(cur_epoch_idx, global_forward_batches)
    IN  /\ pending = "batch_end"
        /\ pending' = "none"
        /\ folders' = IF batch_save THEN save(folders, folder_name) ELSE folders
        /\ rundirs' = IF batch_save THEN synchronize_mkdir(rundirs, timestamp_path)
                                    ELSE rundirs
        /\ last' = Outcome("batch_end",
                           IF batch_save /\ save_raises THEN "SaveError" ELSE "none",
                           IF batch_save THEN <<folder_name>> ELSE <<>>, <<>>)
        /\ UNCHANGED <<config, mp, _topk_model, _topn, _real_monitor, timestamp_path,
                       cur_epoch_idx, global_forward_batches, launch_time, ckpt, seen>>

\* ------------------------------------------------------------ on_exception
\* mutant: a raised subclass of a listed class matches too
_isinstance_of_listed(cls, allow_list) == \E c \in allow_list : issubclass(cls, c)

\* exception.__class__ in self.save_on_exception
_in_allow_list(cls, allow_list) == cls \in allow_list

\* the loop raised an exception of class cls and hands it to the callback
on_exception(cls, save_raises) ==
    LET saves == _in_allow_list(cls, save_on_exception)
        folder_name == ExceptionFolder(cur_epoch_idx, global_forward_batches, cls)
    IN  /\ pending = "none"
        /\ pending' = cls
        /\ folders' = IF saves THEN save(folders, folder_name) ELSE folders
        /\ rundirs' = IF saves THEN synchronize_mkdir(rundirs, timestamp_path) ELSE rundirs
        /\ last' = Outcome("exception",
                           IF saves /\ save_raises THEN "SaveError" ELSE "none",
                           IF saves THEN <<folder_name>> ELSE <<>>, <<>>)
        /\ UNCHANGED <<config, mp, _topk_model, _topn, _real_monitor, timestamp_path,
                       cur_epoch_idx, global_forward_batches, launch_time, ckpt, seen>>

\* ------------------------------------------------------ checkpoint state
\* int() of a value that is already an int
int(x) == x

\* apply_to_collection(d, dtype=CanItemDataType, function=lambda x: x.item()):
\* a copy of d; the values held are plain numbers, which have no item()
apply_to_collection(d) == [i \in DOMAIN d |-> [k |-> d[i].k, v |-> d[i].v]]

\* the dict on_save_checkpoint returns
_states(tp, topk, K, real_monitor) ==
    ("timestamp_path" :> tp) @@
    ("_topk_model" :> apply_to_collection(topk)) @@
    ("save_topk" :> IF K = None THEN 0 ELSE K) @@
    ("_real_monitor" :> real_monitor)

on_save_checkpoint ==
    /\ pending = "none"
    /\ ckpt' = <<_states(timestamp_path, _topk_model, save_topk, _real_monitor)>>
    /\ last' = Outcome("save_checkpoint", "none", <<>>, <<>>)
    /\ UNCHANGED <<config, mp, _topk_model, _topn, _real_monitor, timestamp_path,
                   cur_epoch_idx, global_forward_batches, pending, launch_time,
                   rundirs, folders, seen>>

\* d.update(other)
RECURSIVE DictUpdate(_, _)
DictUpdate(d, other) ==
    IF other = <<>> THEN d
    ELSE DictUpdate(DictSet(d, Head(other).k, Head(other).v), Tail(other))

\* mutant: the comparison of the recorded and the configured K is left out
_load_unchecked(tp, topk, K, real_monitor, states, exists) ==
    LET keep == [tp |-> tp, topk |-> topk, real_monitor |-> real_monitor, err |-> "none"]
        adopted == [keep EXCEPT !.tp = states["timestamp_path"]]
        branch ==
            IF ~exists THEN keep
            ELSE IF "_topk_model" \notin DOMAIN states \/ "save_topk" \notin DOMAIN states
            THEN [adopted EXCEPT !.err = "KeyError"]
            ELSE adopted
    IN  IF "timestamp_path" \notin DOMAIN states THEN [keep EXCEPT !.err = "KeyError"]
        ELSE IF branch.err # "none" THEN branch
        ELSE IF "real_monitor" \notin DOMAIN states THEN [branch EXCEPT !.err = "KeyError"]
        ELSE [branch EXCEPT !.real_monitor = states["real_monitor"]]

\* mutant: the recorded run directory is logged and not taken over
_load_in_place(tp, topk, K, real_monitor, states, exists) ==
    LET keep == [tp |-> tp, topk |-> topk, real_monitor |-> real_monitor, err |-> "none"]
        restored == IF int(states["save_topk"]) = 0 THEN None ELSE int(states["save_topk"])
        branch ==
            IF ~exists THEN keep
            ELSE IF "_topk_model" \notin DOMAIN states \/ "save_topk" \notin DOMAIN states
            THEN [keep EXCEPT !.err = "KeyError"]
            ELSE IF restored # None /\ K # None /\ K # restored
            THEN [keep EXCEPT !.err = "AssertionError"]
            ELSE [keep EXCEPT !.topk = DictUpdate(topk, topk)]
    IN  IF "timestamp_path" \notin DOMAIN states THEN [keep EXCEPT !.err = "KeyError"]
        ELSE IF branch.err # "none" THEN branch
        ELSE IF "real_monitor" \notin DOMAIN states THEN [branch EXCEPT !.err = "KeyError"]
        ELSE [branch EXCEPT !.real_monitor = states["real_monitor"]]

\* the fields on_load_checkpoint leaves behind, and the error it raises if any;
\* exists: os.path.exists(states['timestamp_path'])
_load(tp, topk, K, real_monitor, states, exists) ==
    LET keep == [tp |-> tp, topk |-> topk, real_monitor |-> real_monitor, err |-> "none"]
        adopted == [keep EXCEPT !.tp = states["timestamp_path"]]
        restored == IF int(states["save_topk"]) = 0 THEN None ELSE int(states["save_topk"])
        merged == [adopted EXCEPT !.topk = DictUpdate(topk, topk)]
        branch ==
            IF ~exists THEN keep
            ELSE IF "_topk_model" \notin DOMAIN states \/ "save_topk" \notin DOMAIN states
            THEN [adopted EXCEPT !.err = "KeyError"]
            ELSE IF restored # None /\ K # None /\ K # restored
            THEN [adopted EXCEPT !.err = "AssertionError"]
            ELSE merged
    IN  IF "timestamp_path" \notin DOMAIN states THEN [keep EXCEPT !.err = "KeyError"]
        ELSE IF branch.err # "none" THEN branch
        ELSE IF "real_monitor" \notin DOMAIN states THEN [branch EXCEPT !.err = "KeyError"]
        ELSE [branch EXCEPT !.real_monitor = states["real_monitor"]]

on_load_checkpoint(states) ==
    LET r == _load(timestamp_path, _topk_model, save_topk, _real_monitor, states,
                   states["timestamp_path"] \in rundirs)
    IN  /\ timestamp_path' = r.tp
        /\ _topk_model' = r.topk
        /\ _real_monitor' = r.real_monitor
        /\ last' = Outcome("load_checkpoint", r.err, <<>>, <<>>)
        /\ pending = "none"
        /\ UNCHANGED <<config, mp, _topn, cur_epoch_idx, global_forward_batches, pending,
                       launch_time, rundirs, folders, ckpt, seen>>

\* ------------------------------------------------------------- environment
\* the training loop finishes a batch: the counter moves, then the callback is due
AdvanceBatch ==
    /\ pending = "none"
    /\ global_forward_batches < plan.total_batches
    /\ global_forward_batches' = global_forward_batches + 1
    /\ pending' = "batch_end"
    /\ last' = Outcome("trainer", "none", <<>>, <<>>)
    /\ UNCHANGED <<config, mp, _topk_model, _topn, _real_monitor, timestamp_path,
                   cur_epoch_idx, launch_time, rundirs, folders, ckpt, seen>>

\* the training loop finishes an epoch: the counter moves, then the callback is due
AdvanceEpoch ==
    /\ pending = "none"
    /\ cur_epoch_idx < plan.n_epochs
    /\ cur_epoch_idx' = cur_epoch_idx + 1
    /\ pending' = "epoch_end"
    /\ last' = Outcome("trainer", "none", <<>>, <<>>)
    /\ UNCHANGED <<config, mp, _topk_model, _topn, _real_monitor, timestamp_path,
                   global_forward_batches, launch_time, rundirs, folders, ckpt, seen>>

\* the training loop calls on_train_epoch_end with its epoch counter at e: the
\* loop is not part of the repository's files, so the counter may be presented
\* before it was advanced (e = cur_epoch_idx, 0 in a first epoch) or after
PresentEpoch(e) ==
    /\ pending = "none"
    /\ cur_epoch_idx <= e /\ e <= plan.n_epochs
    /\ cur_epoch_idx' = e
    /\ pending' = "epoch_end"
    /\ last' = Outcome("trainer", "none", <<>>, <<>>)
    /\ UNCHANGED <<config, mp, _topk_model, _topn, _real_monitor, timestamp_path,
                   global_forward_batches, launch_time, rundirs, folders, ckpt, seen>>

\* the same for on_train_batch_end and the global batch counter
PresentBatch(b) ==
    /\ pending = "none"
    /\ global_forward_batches <= b /\ b <= plan.total_batches
    /\ global_forward_batches' = b
    /\ pending' = "batch_end"
    /\ last' = Outcome("trainer", "none", <<>>, <<>>)
    /\ UNCHANGED <<config, mp, _topk_model, _topn, _real_monitor, timestamp_path,
                   cur_epoch_idx, launch_time, rundirs, folders, ckpt, seen>>

\* the process ends and a new one is launched: a fresh trainer and a fresh
\* manager built by __init__ with top-K width K; wiped: the old run directories
\* were deleted in between
NewRun(K, wiped) ==
    /\ launch_time < MaxRuns
    /\ launch_time' = launch_time + 1
    /\ save_topk' = K
    /\ Construct(monitor, launch_time + 1, IF wiped THEN {} ELSE rundirs)
    /\ folders' = IF wiped THEN {} ELSE folders
    /\ cur_epoch_idx' = 0
    /\ global_forward_batches' = 0
    /\ pending' = "none"
    /\ seen' = <<>>
    /\ last' = Outcome("init", "none", <<>>, <<>>)
    /\ UNCHANGED <<monitor, save_every_n_epochs, save_every_n_batches, save_last,
                   larger_better, save_on_exception, plan, ckpt, mp>>

\* ------------------------------------------------------ distributed runs
\* Every process of a distributed run constructs its own manager and handles
\* the same triggers.  mp holds, per process, FASTNLP_LAUNCH_TIME (launch), the
\* manager's timestamp_path (tp), the file system calls it still has to make
\* (todo), where it is in the first of them (phase), how many mkdir/rm calls
\* it has done its part of (arrived) and returned from (passed); and the shared
\* disk: directories (disk), directories being created or deleted (partial),
\* payloads written (payloads), the processes that changed the disk (mutators),
\* the folders handed to the external save function (fn_calls).
Procs == 1..NumProcs

\* FASTNLP_GLOBAL_RANK: the first process is rank 0, the coordinator
Rank(p) == p - 1

\* the run directory itself, as the name of a directory
RunFolder ==
    [prefix |-> folder_prefix, kind |-> "run", epoch |-> None, batch |-> None,
     monitor |-> NoName, value |-> None]

\* after __init__ has computed timestamp_path from FASTNLP_LAUNCH_TIME in every
\* process: each is at synchronize_mkdir(self.timestamp_path)
MultiConstructed(launch) ==
    [launch |-> launch,
     tp |-> launch,
     todo |-> [p \in Procs |-> <<Call("mkdir", launch[p], RunFolder)>>],
     phase |-> [p \in Procs |-> "call"],
     arrived |-> [p \in Procs |-> 0],
     passed |-> [p \in Procs |-> 0],
     disk |-> {}, partial |-> {}, payloads |-> {}, mutators |-> {},
     events |-> 0, fn_calls |-> {}]

Idle == \A p \in Procs : mp.todo[p] = <<>>

\* a trigger fires in every process: save(folder_name)
SaveTrigger(folder_name) ==
    /\ Idle
    /\ mp.events < MaxMultiEvents
    /\ mp' = [mp EXCEPT !.todo = [p \in Procs |-> SaveCalls(mp.tp[p], folder_name)],
                        !.events = @ + 1]
    /\ UNCHANGED manager

\* a validation event that evicts least and saves folder_name, in every process
ReplaceTrigger(least, folder_name) ==
    /\ Idle
    /\ mp.events < MaxMultiEvents
    /\ least # folder_name
    /\ mp' = [mp EXCEPT !.todo = [p \in Procs |->
                                     ReplaceCalls(mp.tp[p], least, folder_name)],
                        !.events = @ + 1]
    /\ UNCHANGED manager

\* process p hands folder to the external save function; whole: the folder is
\* on the disk, completely created, when it does
FnCall(p, folder) ==
    [p |-> p, path |-> folder, whole |-> folder \in mp.disk \ mp.partial]

\* the coordinator starts the mutation of its first call
Begin(p) ==
    /\ Rank(p) = 0
    /\ mp.todo[p] # <<>>
    /\ mp.phase[p] = "call"
    /\ mp' = [mp EXCEPT !.phase[p] = "busy",
                        !.partial = IF Head(mp.todo[p]).kind \in {"mkdir", "rm"}
                                    THEN @ \cup {Head(mp.todo[p]).path} ELSE @]
    /\ UNCHANGED manager

\* the disk after the call c is complete
Mutated(c) ==
    [mp EXCEPT !.disk = IF c.kind = "mkdir" THEN @ \cup {c.path}
                        ELSE IF c.kind = "rm" THEN @ \ {c.path} ELSE @,
               !.payloads = IF c.kind = "write" THEN @ \cup {c.path}
                            ELSE IF c.kind = "rm" THEN @ \ {c.path} ELSE @,
               !.partial = @ \ {c.path}]

\* the coordinator completes the mutation: a write returns, a mkdir or rm
\* goes on to the synchronization point
End(p) ==
    /\ Rank(p) = 0
    /\ mp.todo[p] # <<>>
    /\ mp.phase[p] = "busy"
    /\ LET c == Head(mp.todo[p])
           m == [Mutated(c) EXCEPT !.mutators = @ \cup {p}]
       IN  mp' = IF c.kind = "write"
                 THEN [m EXCEPT !.todo[p] = Tail(@), !.phase[p] = "call",
                                !.fn_calls = @ \cup {FnCall(p, c.path)}]
                 ELSE [m EXCEPT !.phase[p] = "wait", !.arrived[p] = @ + 1]
    /\ UNCHANGED manager

\* another process reaches the same call: nothing is done to the disk
Arrive(p) ==
    /\ Rank(p) # 0
    /\ mp.todo[p] # <<>>
    /\ mp.phase[p] = "call"
    /\ LET c == Head(mp.todo[p])
       IN  mp' = IF c.kind = "write"
                 THEN [mp EXCEPT !.todo[p] = Tail(@),
                                 !.fn_calls = @ \cup {FnCall(p, c.path)}]
                 ELSE [mp EXCEPT !.phase[p] = "wait", !.arrived[p] = @ + 1]
    /\ UNCHANGED manager

\* mutant: a process returns from mkdir/rm without waiting for the others
_may_return_unsynchronized(p) == TRUE

\* the synchronization point after mkdir/rm: every process has done its part
_may_return(p) == \A q \in Procs : mp.arrived[q] > mp.passed[p]

\* a process returns from synchronize_mkdir / synchronize_safe_rm
Return(p) ==
    /\ mp.todo[p] # <<>>
    /\ mp.phase[p] = "wait"
    /\ _may_return(p)
    /\ mp' = [mp EXCEPT !.todo[p] = Tail(@), !.phase[p] = "call", !.passed[p] = @ + 1]
    /\ UNCHANGED manager

\* ------------------------------------------------- registration on events
\* Trainer.on(event) decorates a function: the function is checked against
\* the callback method of the same name when it is registered.

\* the signature of the callback method an event stands for, self included
Callback(value) ==
    CASE value = "on_train_epoch_begin" -> <<"self", "trainer">>
      [] value = "on_train_batch_begin" -> <<"self", "trainer", "batch", "indices">>
      [] value = "on_train_epoch_end"   -> <<"self", "trainer">>
      [] value = "on_train_batch_end"   -> <<"self", "trainer">>
      [] value = "on_validate_end"      -> <<"self", "trainer", "validate_res">>
      [] value = "on_exception"         -> <<"self", "trainer", "exception">>

Events == {"on_train_epoch_begin", "on_train_batch_begin", "on_train_epoch_end",
           "on_train_batch_end", "on_validate_end", "on_exception"}

\* Events.ON_X or Events.ON_X(every=N)
Event(value, every) == [value |-> value, every |-> every]

EventArgs == {Event(v, n) : v \in Events, n \in {None} \cup 1..MaxEvery}

\* def fn(<params>): the functions a caller may decorate
ParamNames == {"trainer", "batch", "indices"}

RECURSIVE Seqs(_, _)
Seqs(S, n) ==
    IF n = 0 THEN {<<>>}
    ELSE Seqs(S, n - 1) \cup {Append(q, x) : q \in {r \in Seqs(S, n - 1) : Len(r) = n - 1}, x \in S}

FnArgs == Seqs(ParamNames, MaxParams)

\* mutant: the callback's self is counted among the parameters the event passes
_check_valid_parameters_with_self(event, fn) == Len(fn) = Len(Callback(event.value))

\* the function takes what the event passes: the callback's parameters after self
_check_valid_parameters(event, fn) == Len(fn) = Len(Tail(Callback(event.value)))

Registered(outcome, event, fn) ==
    [op |-> outcome.op, err |-> outcome.err, saved |-> outcome.saved,
     removed |-> outcome.removed, event |-> event, fn |-> fn]

\* @Trainer.on(event) def fn(...)
on(event, fn) ==
    /\ last' = Registered(Outcome("on", IF _check_valid_parameters(event, fn)
                                        THEN "none" ELSE "AssertionError",
                                  <<>>, <<>>), event, fn)
    /\ UNCHANGED <<config, mp, _topk_model, _topn, _real_monitor, timestamp_path,
                   cur_epoch_idx, global_forward_batches, pending,
                   launch_time, rundirs, folders, ckpt, seen>>

\* ----------------------------------------------------------- specification
\* validation events between batches
NextTopk ==
    \/ \E res \in Results(plan.keys, plan.vals), b \in BOOLEAN : on_validate_end(res, b)
    \/ \E b \in BOOLEAN : on_train_batch_end(b)
    \/ AdvanceBatch

\* the training loop's periodic events
NextSched ==
    \/ \E res \in Results(plan.keys, plan.vals), b \in BOOLEAN : on_validate_end(res, b)
    \/ \E b1, b2 \in BOOLEAN : on_train_epoch_end(b1, b2)
    \/ \E b \in BOOLEAN : on_train_batch_end(b)
    \/ AdvanceBatch
    \/ AdvanceEpoch

\* validation events, checkpoints of the manager's state, relaunches; the
\* trainer restores a checkpoint right after construction, before any event
NextResume ==
    \/ \E res \in Results(plan.keys, plan.vals), b \in BOOLEAN : on_validate_end(res, b)
    \/ on_save_checkpoint
    \/ (ckpt # <<>> /\ last.op = "init" /\ on_load_checkpoint(ckpt[1]))
    \/ \E K \in TopkChoices, wiped \in BOOLEAN : NewRun(K, wiped)

Spec == Init /\ [][NextTopk]_vars

SpecSched == InitSched /\ [][NextSched]_vars

SpecResume == InitResume /\ [][NextResume]_vars

\* both periodic triggers left unset; the loop presents any counter value
InitDormant ==
    /\ save_every_n_epochs = sys_maxsize
    /\ save_every_n_batches = sys_maxsize
    /\ save_last \in BOOLEAN
    /\ save_topk = None
    /\ larger_better = TRUE
    /\ save_on_exception = {}
    /\ plan = Plan(MaxEpoch, MaxBatch, 0, {acc}, {1})
    /\ Constructed

NextDormant ==
    \/ \E e \in 0..MaxEpoch : PresentEpoch(e)
    \/ \E b \in 0..MaxBatch : PresentBatch(b)
    \/ \E b1, b2 \in BOOLEAN : on_train_epoch_end(b1, b2)
    \/ \E b \in BOOLEAN : on_train_batch_end(b)

SpecDormant == InitDormant /\ [][NextDormant]_vars

\* an allow-list of exception classes; the loop runs until an exception ends it
InitException ==
    /\ save_every_n_epochs = sys_maxsize
    /\ save_every_n_batches = sys_maxsize
    /\ save_last = FALSE
    /\ save_topk = None
    /\ larger_better = TRUE
    /\ save_on_exception \in SUBSET {"KeyError", "LookupError", "Exception"}
    /\ plan = Plan(MaxEpoch, MaxBatch, 0, {acc}, {1})
    /\ Constructed

NextException ==
    \/ \E b1, b2 \in BOOLEAN : on_train_epoch_end(b1, b2)
    \/ \E b \in BOOLEAN : on_train_batch_end(b)
    \/ AdvanceBatch
    \/ AdvanceEpoch
    \/ \E cls \in ExceptionClasses, b \in BOOLEAN : on_exception(cls, b)

SpecException == InitException /\ [][NextException]_vars

\* resolution of the monitor: the evaluator reports acc, ac or both, in
\* either order, at the sanity check and at each validation
InitMonitor ==
    /\ save_every_n_epochs = sys_maxsize
    /\ save_every_n_batches = sys_maxsize
    /\ save_last = FALSE
    /\ save_topk \in TopkChoices
    /\ larger_better = TRUE
    /\ save_on_exception = {}
    /\ plan = Plan(0, 0, MaxMonitorEvents, {acc, ac}, 1..MaxMonitorVal)
    /\ Constructed

NextMonitor ==
    \/ \E res \in Results(plan.keys, plan.vals) : on_sanity_check_end(res)
    \/ \E res \in Results(plan.keys, plan.vals), b \in BOOLEAN : on_validate_end(res, b)

SpecMonitor == InitMonitor /\ [][NextMonitor]_vars

\* construction from arbitrary arguments
NextInit == last.op = "start" /\ \E a \in InitArgs : __init__(a)

SpecInit == Unconstructed /\ [][NextInit]_vars

\* a distributed run: FASTNLP_LAUNCH_TIME is read from each process's own
\* environment, which a launcher may or may not have set to one value
InitMulti ==
    /\ save_every_n_epochs = sys_maxsize
    /\ save_every_n_batches = sys_maxsize
    /\ save_last = FALSE
    /\ save_topk = None
    /\ larger_better = TRUE
    /\ save_on_exception = {}
    /\ plan = Plan(0, 0, 0, {acc}, {1})
    /\ ConstructedManager
    /\ mp \in {MultiConstructed(launch) : launch \in [Procs -> 1..MaxRuns]}

MultiFolders == {LastFolder, EpochFolder(1)}

NextMulti ==
    \/ \E n \in MultiFolders : SaveTrigger(n)
    \/ \E least, n \in MultiFolders : ReplaceTrigger(least, n)
    \/ \E p \in Procs : Begin(p)
    \/ \E p \in Procs : End(p)
    \/ \E p \in Procs : Arrive(p)
    \/ \E p \in Procs : Return(p)

SpecMulti == InitMulti /\ [][NextMulti]_vars

\* functions are registered before any trainer or manager exists
NextOn == \E event \in EventArgs, fn \in FnArgs : on(event, fn)

SpecOn == Unconstructed /\ [][NextOn]_vars

\* ==================================================== properties: helpers
\* the validation event just handled considered a candidate
Considered == last.op = "validate" /\ last.err # "ResolutionError" /\ save_topk # None

\* no artifact name was presented twice to this manager
DistinctNames == \A i, j \in DOMAIN seen : seen[i].name = seen[j].name => i = j

\* no metric value was presented twice to this manager
DistinctValues == \A i, j \in DOMAIN seen : seen[i].value = seen[j].value => i = j

\* candidates admitted so far (initial fill or replacement)
Admitted == Cardinality({i \in DOMAIN seen : seen[i].admitted})

Min2(a, b) == IF a <= b THEN a ELSE b

\* positions of seen that rank among the K best: larger value first, and of
\* equal values the earlier position first
BestFirstSeen(K) ==
    {i \in DOMAIN seen :
        Cardinality({j \in DOMAIN seen :
            \/ seen[j].value > seen[i].value
            \/ (seen[j].value = seen[i].value /\ j < i)}) < K}

\* the metric-named directories under the manager's run directory
TopkDirs == {p.name : p \in {q \in folders : q.run = timestamp_path /\ q.name.kind = "topk"}}

RetainedValues == {_topk_model[i].v : i \in DOMAIN _topk_model}

SeenValues == [i \in DOMAIN seen |-> seen[i].value]

\* ==================================================================== C1
\* C1: with larger_better=True the retained artifacts are exactly the K best
\* candidates seen so far, equal values ranked by first-seen.  Stated for runs
\* in which every candidate has a name of its own.
C1_RetainedAreBestFirstSeen ==
    (save_topk # None /\ larger_better /\ DistinctNames)
        => DictKeys(_topk_model) = {seen[i].name : i \in BestFirstSeen(save_topk)}

\* ==================================================================== C2
\* C2: the retention set never holds more than K entries, _topn is
\* min(admitted, K), and once K candidates were admitted the size is exactly K.
C2_SizeAndCounter ==
    save_topk # None
        => /\ Len(_topk_model) <= save_topk
           /\ _topn = Min2(Admitted, save_topk)
           /\ (Admitted >= save_topk => Len(_topk_model) = save_topk)

\* ==================================================================== C3
\* C3: with pairwise distinct metric values and larger_better=True the
\* retained values are the K largest seen so far, an eviction removes a value
\* smaller than every value kept, and K=2 with values 1,3,2,4 (the order of
\* 0.5, 0.7, 0.6, 0.9) retains {2,3} after the third event and {3,4} after
\* the fourth.
C3_DistinctValuesTopK ==
    (save_topk # None /\ larger_better /\ DistinctValues)
        => /\ DictKeys(_topk_model) = {seen[i].name : i \in BestFirstSeen(save_topk)}
           /\ RetainedValues =
                 {v \in {seen[i].value : i \in DOMAIN seen} :
                     Cardinality({i \in DOMAIN seen : seen[i].value > v}) < save_topk}
           /\ (Considered /\ last.removed # <<>>
                 => /\ Len(last.removed) = 1
                    /\ \A v \in RetainedValues : last.removed[1].value < v
                    /\ last.removed[1] \in {seen[i].name : i \in DOMAIN seen})
           /\ (save_topk = 2 /\ SeenValues = <<1, 3, 2>>
                 => RetainedValues = {2, 3} /\ (Considered => last.removed = <<seen[1].name>>))
           /\ (save_topk = 2 /\ SeenValues = <<1, 3, 2, 4>>
                 => RetainedValues = {3, 4} /\ (Considered => last.removed = <<seen[3].name>>))

\* the scenario has run to its fourth event
C3_Witness ==
    /\ save_topk = 2 /\ larger_better
    /\ SeenValues = <<1, 3, 2, 4>>
    /\ RetainedValues = {3, 4}

\* ==================================================================== C4
\* C4: with K=1 and the slot filled, a strictly better candidate replaces the
\* retained entry (its directory is removed, a save is triggered), and an
\* equal or worse candidate changes nothing: no save, no directory removed.
C4_SingleSlot ==
    [][ (save_topk = 1 /\ _topn = 1 /\ Len(seen') = Len(seen) + 1)
          => LET c == seen'[Len(seen')]
                 old == _topk_model[1]
             IN  IF (larger_better /\ c.value > old.v) \/ (~larger_better /\ c.value < old.v)
                 THEN /\ _topk_model' = <<[k |-> c.name, v |-> c.value]>>
                      /\ last'.saved = <<c.name>>
                      /\ last'.removed = <<old.k>>
                      /\ folders' = (folders \ {Path(timestamp_path, old.k)})
                                       \cup {Path(timestamp_path, c.name)}
                 ELSE /\ _topk_model' = _topk_model
                      /\ last'.saved = <<>>
                      /\ last'.removed = <<>>
                      /\ folders' = folders ]_vars

\* a replacement and then a rejection have happened in a single-slot manager
C4_Witness ==
    /\ save_topk = 1
    /\ Len(seen) = 3
    /\ seen[2].admitted
    /\ ~seen[3].admitted
    /\ seen[3].value = seen[2].value

\* ==================================================================== C5
\* the states dictionary handed to the load just handled
Loaded == last.op = "load_checkpoint"

RecordedK == ckpt[1]["save_topk"]

ConfiguredK == IF save_topk = None THEN 0 ELSE save_topk

RecordedDirExists == ckpt[1]["timestamp_path"] \in rundirs

\* C5: a snapshot restored into a manager that has not considered any
\* candidate, with the same configured K and the recorded run directory still
\* on disk, leaves that manager with the snapshot's retention set and
\* resolved monitor name.
C5_RoundTrip ==
    (Loaded /\ seen = <<>> /\ RecordedK = ConfiguredK /\ RecordedDirExists)
        => /\ last.err = "none"
           /\ _topk_model = ckpt[1]["_topk_model"]
           /\ _real_monitor = ckpt[1]["_real_monitor"]

\* ==================================================================== C6
\* C6: the snapshot has exactly the keys timestamp_path, topk_state, save_topk
\* and real_monitor, save_topk being 0 when top-K is unset and K otherwise,
\* and a load finds every key it reads in the snapshot.
C6_StateKeys ==
    /\ last.op = "save_checkpoint"
         => /\ DOMAIN ckpt[1] = {"timestamp_path", "topk_state", "save_topk", "real_monitor"}
            /\ RecordedK = ConfiguredK
    /\ Loaded => last.err # "KeyError"

\* ==================================================================== C7
\* C7: a load of a snapshot whose recorded run directory is gone completes
\* without raising, and the manager keeps the run directory it created at
\* construction.
C7_MissingDirectoryFallback ==
    (Loaded /\ ~RecordedDirExists)
        => /\ last.err = "none"
           /\ timestamp_path = launch_time

C9_DirsAreRetained ==
    (last.op = "validate" /\ last.err = "none" /\ save_topk # None)
        => /\ TopkDirs = DictKeys(_topk_model)
           /\ Cardinality(TopkDirs) <= save_topk

\* =================================================================== C10
EpochEnded == last.op = "epoch_end"

EpochDue == cur_epoch_idx % save_every_n_epochs = 0

EpochSaveRaised ==
    EpochDue /\ last.err = "SaveError" /\ last.saved = <<EpochFolder(cur_epoch_idx)>>

C11_DormantTriggers ==
    /\ (EpochEnded /\ save_every_n_epochs = sys_maxsize)
          => \A i \in DOMAIN last.saved : last.saved[i].kind # "epoch"
    /\ (last.op = "batch_end" /\ save_every_n_batches = sys_maxsize)
          => last.saved = <<>>

\* =================================================================== C12
\* C12: on an exception event a save fires iff the class of the raised
\* exception is itself in the allow-list; a subclass of a listed class or an
\* unlisted class saves nothing, an empty allow-list never saves; with the
\* allow-list {KeyError} a KeyError saves and a TypeError does not.
C12_ExactTypeMatch ==
    last.op = "exception"
        => /\ last.saved =
                 (IF pending \in save_on_exception
                  THEN <<ExceptionFolder(cur_epoch_idx, global_forward_batches, pending)>>
                  ELSE <<>>)
           /\ (last.saved # <<>> => Path(timestamp_path, last.saved[1]) \in folders)
           /\ (save_on_exception = {} => last.saved = <<>>)
           /\ (save_on_exception = {"KeyError"}
                 => (last.saved # <<>> <=> pending = "KeyError"))
           /\ (save_on_exception = {"LookupError"} /\ pending = "KeyError"
                 => last.saved = <<>>)

\* a KeyError was raised under the allow-list {KeyError} and saved
C12_Witness ==
    /\ last.op = "exception"
    /\ save_on_exception = {"KeyError"}
    /\ pending = "KeyError"
    /\ last.saved = <<ExceptionFolder(cur_epoch_idx, global_forward_batches, "KeyError")>>

\* =================================================================== C13
\* the handler stepping into the primed state resolves the monitor
Resolves == last'.op = "sanity_check" \/ (last'.op = "validate" /\ save_topk # None)

\* the handler of the unprimed state resolved the monitor, successfully
HasResolved ==
    /\ last.op = "sanity_check" \/ (last.op = "validate" /\ save_topk # None)
    /\ last.err # "ResolutionError"

\* C13: a resolution against a mapping that contains the pinned key returns
\* that key and its value, whatever else the mapping holds and in whatever
\* order; resolving again against the same mapping, or the same keys in
\* another order, returns the same name.
C13_PinIsSticky ==
    [][ Resolves
          => /\ _real_monitor \in DictKeys(last'.res)
                  => /\ _real_monitor' = _real_monitor
                     /\ last'.err # "ResolutionError"
                     /\ (last'.op = "validate"
                           => /\ seen'[Len(seen')].name.monitor = _real_monitor
                              /\ seen'[Len(seen')].value = DictGet(last'.res, _real_monitor))
             /\ (HasResolved /\ DictKeys(last'.res) = DictKeys(last.res))
                  => _real_monitor' = _real_monitor ]_vars

\* the pin on ac has survived a mapping that lists the requested name acc first
C13_Witness ==
    /\ last.op = "validate" /\ save_topk # None /\ last.err # "ResolutionError"
    /\ Len(seen) = 2
    /\ seen[1].name.monitor = ac
    /\ Len(last.res) = 2 /\ last.res[1].k = acc /\ last.res[2].k = ac
    /\ _real_monitor = ac
    /\ seen[2].value = last.res[2].v

\* =================================================================== C14
\* an invalid configuration, as the constructor's contract lists them
InvalidCount(x) == x.type # "NoneType" /\ ~(x.type = "int" /\ x.v >= 1)

InvalidArgs(a) ==
    \/ a.save_topk.type # "NoneType" /\ a.monitor.type = "NoneType"
    \/ a.monitor.type \notin {"NoneType", "str"}
    \/ a.save_folder.at \in {"missing", "file"}
    \/ InvalidCount(a.save_every_n_epochs)
    \/ InvalidCount(a.save_every_n_batches)
    \/ InvalidCount(a.save_topk)
    \/ \E i \in DOMAIN a.save_on_exception.v :
           a.save_on_exception.v[i] \notin ExceptionClasses

\* C14: construction raises on every invalid configuration, and whenever it
\* raises no run directory has been created and no field was set.
C14_FailFast ==
    last.op = "__init__"
        => /\ InvalidArgs(last.args) => last.err # "none"
           /\ last.err # "none" => (rundirs = {} /\ timestamp_path = None)
           /\ last.err = "none" => rundirs = {timestamp_path}

\* a zero top-K width was refused with nothing created
C14_Witness ==
    /\ last.op = "__init__"
    /\ last.args.save_topk = Arg("int", 0)
    /\ last.args.monitor.type = "str"
    /\ last.args.save_folder = [type |-> "Path", at |-> "dir"]
    /\ last.err = "ValueError"
    /\ rundirs = {}

\* =================================================================== C15
Coordinator == CHOOSE p \in Procs : Rank(p) = 0

\* C15: only the coordinator changes the disk; the other processes reach the
\* same calls and do nothing; no process has returned from a mkdir/rm call
\* that the coordinator has not completed, so while a directory is being
\* created or deleted every process is still at or before that call.
C15_CoordinatorOnly ==
    /\ mp.mutators \subseteq {Coordinator}
    /\ \A p \in Procs : mp.passed[p] <= mp.arrived[Coordinator]
    /\ mp.partial # {} => mp.phase[Coordinator] = "busy"
    /\ \A c \in mp.fn_calls : mp.tp[c.p] = mp.tp[Coordinator] => c.whole

\* another process has gone through an eviction and a save that the
\* coordinator carried out: run directory, rm, mkdir and payload
C15_Witness ==
    /\ \E p \in Procs \ {Coordinator} : mp.passed[p] = 3 /\ mp.todo[p] = <<>>
    /\ mp.mutators = {Coordinator}
    /\ mp.payloads # {}
    /\ mp.partial = {}

\* =================================================================== C16
\* C16: every process computes the same run directory at construction, every
\* process hands the external save function the same folder for a trigger,
\* and every trigger of the run writes under one parent directory.
C16_SameRunDirectory ==
    /\ \A p, q \in Procs : mp.tp[p] = mp.tp[q]
    /\ \A c, d \in mp.fn_calls : c.path.run = d.path.run

\* =================================================================== C17
\* what each event passes to the functions registered on it
Passes(value) ==
    CASE value \in {"on_train_epoch_begin", "on_train_epoch_end", "on_train_batch_end"}
             -> <<"trainer">>
      [] value = "on_train_batch_begin" -> <<"trainer", "batch", "indices">>
      [] value = "on_validate_end" -> <<"trainer", "validate_res">>
      [] value = "on_exception" -> <<"trainer", "exception">>

WorstRetained ==
    CHOOSE v \in RetainedValues :
        \A w \in RetainedValues : IF larger_better THEN v <= w ELSE v >= w

\* the first entry, in insertion order, that holds the least valuable value
FirstWorst ==
    CHOOSE i \in DOMAIN _topk_model :
        /\ _topk_model[i].v = WorstRetained
        /\ \A j \in 1..(i - 1) : _topk_model[j].v # WorstRetained

\* a validation event admits its candidate into a full retention set
AdmitsIntoFull ==
    /\ save_topk # None
    /\ _topn = save_topk
    /\ _topk_model # <<>>
    /\ Len(seen') = Len(seen) + 1
    /\ seen'[Len(seen')].admitted

\* C18: an admission into a full retention set evicts the least valuable
\* entry, of several such the first in insertion order; that one entry and its
\* directory go, every other entry stays where it was with its value and its
\* directory.
C18_EvictsFirstLeastValuable ==
    [][ AdmitsIntoFull
          => LET c == seen'[Len(seen')]
                 out == _topk_model[FirstWorst]
                 others == SelectSeq(_topk_model, LAMBDA e : e.k # out.k)
             IN  /\ last'.removed = <<out.k>>
                 /\ out.k \notin DictKeys(_topk_model')
                 /\ Path(timestamp_path, out.k) \notin folders'
                 /\ SelectSeq(_topk_model', LAMBDA e : e.k # c.name)
                        = SelectSeq(others, LAMBDA e : e.k # c.name)
                 /\ \A i \in DOMAIN others :
                        Path(timestamp_path, others[i].k) \in folders
                            => Path(timestamp_path, others[i].k) \in folders'
                 /\ c.name \in DictKeys(_topk_model')
                 /\ DictGet(_topk_model', c.name) = c.value ]_vars

\* of two retained entries with the same value the first inserted was evicted
\* and the second kept
C18_Witness ==
    /\ save_topk = 2 /\ larger_better
    /\ Len(seen) = 3
    /\ seen[1].value = seen[2].value /\ seen[3].value > seen[1].value
    /\ last.op = "validate" /\ last.removed = <<seen[1].name>>
    /\ seen[1].name # seen[2].name
    /\ DictKeys(_topk_model) = {seen[2].name, seen[3].name}

\* =================================================================== C19
\* the step is a call of on_load_checkpoint
Loads == last.op = "init" /\ last'.op = "load_checkpoint"

\* the step constructs the manager of a new process
Constructs == launch_time' # launch_time

\* C19: a load whose recorded run directory exists leaves timestamp_path at
\* the recorded directory, whether or not the load then raises; no handler
\* moves timestamp_path afterwards; every directory a handler creates lies
\* under timestamp_path, so after such a load under the recorded directory and
\* not under the one created at construction; and every save reported by a
\* handler has its directory there.
C19_AdoptsRecordedDirectory ==
    [][ /\ (Loads /\ RecordedDirExists) => timestamp_path' = ckpt[1]["timestamp_path"]
        /\ (~Loads /\ ~Constructs) => timestamp_path' = timestamp_path
        /\ ~Constructs
              => /\ \A f \in folders' \ folders : f.run = timestamp_path'
                 /\ \A i \in DOMAIN last'.saved :
                        Path(timestamp_path', last'.saved[i]) \in folders' ]_vars

\* the manager of the second run took over the first run's directory and its
\* save went there, none under its own
C19_Witness ==
    /\ launch_time = 2
    /\ timestamp_path = 1
    /\ last.op = "validate" /\ last.saved # <<>>
    /\ Path(1, last.saved[1]) \in folders
    /\ \A f \in folders : f.run # 2

\* =================================================================== C20
\* the K smallest of the values seen
SmallestSeen(sn, K) ==
    {v \in {sn[i].value : i \in DOMAIN sn} :
        Cardinality({i \in DOMAIN sn : sn[i].value < v}) < K}

LargestRetained == CHOOSE v \in RetainedValues : \A w \in RetainedValues : v >= w

\* C20: with larger_better=False and pairwise distinct values, after every
\* validation event the retained values are the K smallest seen so far; a
\* candidate presented to a full set is admitted exactly when it is strictly
\* smaller than the largest retained value, and the entry evicted is the one
\* holding that largest value; larger_better itself never changes.
C20_SmallerIsBetter ==
    [][ /\ (launch_time' = launch_time) => larger_better' = larger_better
        /\ (save_topk # None /\ ~larger_better /\ Len(seen') = Len(seen) + 1
              /\ \A i, j \in DOMAIN seen' : seen'[i].value = seen'[j].value => i = j)
             => LET c == seen'[Len(seen')] IN
                /\ {_topk_model'[i].v : i \in DOMAIN _topk_model'} = SmallestSeen(seen', save_topk)
                /\ Len(_topk_model') = Cardinality(SmallestSeen(seen', save_topk))
                /\ Len(seen) >= save_topk
                      => /\ c.admitted <=> c.value < LargestRetained
                         /\ c.admitted
                               => /\ Len(last'.removed) = 1
                                  /\ last'.removed[1].value = LargestRetained
                                  /\ last'.removed[1] \in DictKeys(_topk_model)
                                  /\ last'.removed[1] \notin DictKeys(_topk_model')
                         /\ ~c.admitted
                               => /\ last'.removed = <<>>
                                  /\ _topk_model' = _topk_model ]_vars

\* K=2, smaller is better, values 4, 2, 3, 1: 4 was evicted by 3, then 3 by 1
C20_Witness ==
    /\ save_topk = 2 /\ ~larger_better
    /\ SeenValues = <<4, 2, 3, 1>>
    /\ RetainedValues = {1, 2}
    /\ last.op = "validate" /\ last.removed = <<seen[3].name>>

\* =================================================================== C21
\* C21: the assertion len(_topk_model) == save_topk == _topn never fails in a
\* validation event, whatever artifact names the events produce.
C21_AssertionHolds ==
    last.op = "validate" => last.err # "AssertionError"

\* =================================================================== C22
\* the positions of the last handler's statements of the given kinds
At(kinds) == {i \in DOMAIN last.steps : last.steps[i].kind \in kinds}

\* C22: in a validation event that admits a candidate into a full retention
\* set, the dict is updated and the evicted directory removed before the
\* candidate's directory is created and the external save function called;
\* the save function is called at most once, and when it raises the handler
\* raises, the retention set holds the candidate and not the evicted entry,
\* and the evicted directory is gone.
C22_EvictBeforeSave ==
    (Considered /\ last.removed # <<>>)
        => LET c == seen[Len(seen)]
               out == last.removed[1]
           IN  /\ \A i \in At({"setitem", "pop", "rm"}), j \in At({"mkdir", "write"}) : i < j
               /\ \A i \in At({"mkdir"}), j \in At({"write"}) : i < j
               /\ Cardinality(At({"setitem"})) = 1
               /\ Cardinality(At({"pop"})) = 1
               /\ Cardinality(At({"rm"})) = 1
               /\ \A i \in At({"pop", "rm"}) : last.steps[i].path = Path(timestamp_path, out)
               /\ \A i \in At({"setitem", "mkdir", "write"}) :
                      last.steps[i].path = Path(timestamp_path, c.name)
               /\ Cardinality(At({"write"})) <= 1
               /\ last.err # "AssertionError"
                     => Cardinality(At({"mkdir"})) = 1 /\ Cardinality(At({"write"})) = 1
               /\ last.err = "SaveError"
                     => /\ c.name \in DictKeys(_topk_model)
                        /\ out \notin DictKeys(_topk_model)
                        /\ Path(timestamp_path, out) \notin folders
                        /\ Path(timestamp_path, c.name) \in folders

\* the save of an admitted candidate raised after the eviction was done
C22_Witness ==
    /\ Considered /\ last.removed # <<>>
    /\ last.err = "SaveError"
    /\ Len(last.steps) = 5
    /\ seen[Len(seen)].name \in DictKeys(_topk_model)
    /\ Path(timestamp_path, last.removed[1]) \notin folders
====
